---- MODULE Spec2Model ----
(***************************************************************************)
(* Tradernet MCP server (src/src/index.ts): twelve tools registered on one *)
(* McpServer, each handler mapping its validated parameters to one signed  *)
(* HTTP POST (callApi) and wrapping the result, or the failure, in a       *)
(* response envelope.                                                      *)
(*                                                                         *)
(* JavaScript values are tagged records.  Texts produced by the program    *)
(* (JSON bodies, header values, envelope texts) are TLA+ strings built     *)
(* with \o; the text handed to JSON.parse is a sequence of one-character   *)
(* strings, so that it can be scanned.  Numbers are integers; strings hold *)
(* no quote, backslash or control character, so JSON.stringify needs no    *)
(* escapes and JSON.parse meets none; no object key is an integer, so      *)
(* properties keep the order in which they were written.                   *)
(***************************************************************************)
EXTENDS Integers, Sequences, FiniteSets, TLC

VARIABLES
    PUBLIC_KEY,   \* process.env.TRADERNET_PUBLIC_KEY ?? ""
    PRIVATE_KEY,  \* process.env.TRADERNET_PRIVATE_KEY ?? ""
    API_BASE,     \* process.env.TRADERNET_API_URL ?? default
    tools,        \* names registered on the server by registerTools
    proc,         \* "starting" | "running" | "exited"
    inv,          \* the tool invocations, in order of arrival
    requests,     \* the outbound HTTP requests, in order of issue
    netlog,       \* netlog[r]: what the network answered to requests[r]
    out,          \* the envelopes handed back to the transport
    escaped       \* invocations whose handler rejected instead of returning

vars == <<PUBLIC_KEY, PRIVATE_KEY, API_BASE, tools, proc,
          inv, requests, netlog, out, escaped>>

config == <<PUBLIC_KEY, PRIVATE_KEY, API_BASE, tools>>

-----------------------------------------------------------------------------
(* JavaScript values *)

Undef == [t |-> "undefined"]
Null == [t |-> "null"]
Bool(b) == [t |-> "bool", b |-> b]
Num(n) == [t |-> "num", n |-> n]
Str(s) == [t |-> "str", s |-> s]
Obj(ps) == [t |-> "obj", ps |-> ps]
Arr(es) == [t |-> "arr", es |-> es]

\* a ?? b
Nullish(a, b) == IF a = Undef \/ a = Null THEN b ELSE a

\* Property assignment on an object under construction: a repeated key keeps
\* its place and takes the new value.
RECURSIVE SetProp(_, _, _)
SetProp(ps, k, v) ==
    IF ps = <<>> THEN << <<k, v>> >>
    ELSE IF Head(ps)[1] = k THEN << <<k, v>> >> \o Tail(ps)
    ELSE <<Head(ps)>> \o SetProp(Tail(ps), k, v)

RECURSIVE Spaces(_)
Spaces(n) == IF n = 0 THEN "" ELSE " " \o Spaces(n - 1)

RECURSIVE JoinStr(_, _)
JoinStr(ss, sep) ==
    IF ss = <<>> THEN ""
    ELSE IF Len(ss) = 1 THEN ss[1]
    ELSE ss[1] \o sep \o JoinStr(Tail(ss), sep)

RECURSIVE SelectProps(_)
\* JSON.stringify skips the properties whose value is undefined.
SelectProps(ps) ==
    IF ps = <<>> THEN <<>>
    ELSE IF Head(ps)[2] = Undef THEN SelectProps(Tail(ps))
    ELSE <<Head(ps)>> \o SelectProps(Tail(ps))

\* JSON.stringify(v, null, indent) at nesting depth d; indent = 0 is the
\* compact form JSON.stringify(v).
RECURSIVE Stringify(_, _, _)
Stringify(v, indent, d) ==
    LET nl == IF indent = 0 THEN "" ELSE "\n"
        inner == nl \o Spaces(indent * (d + 1))
        outer == nl \o Spaces(indent * d)
        colon == IF indent = 0 THEN ":" ELSE ": "
    IN CASE v.t = "null" -> "null"
         [] v.t = "undefined" -> "null"
         [] v.t = "bool" -> IF v.b THEN "true" ELSE "false"
         [] v.t = "num" -> ToString(v.n)
         [] v.t = "str" -> "\"" \o v.s \o "\""
         [] v.t = "arr" ->
              IF v.es = <<>> THEN "[]"
              ELSE "[" \o inner
                   \o JoinStr([i \in 1..Len(v.es) |->
                                 Stringify(v.es[i], indent, d + 1)],
                              "," \o inner)
                   \o outer \o "]"
         [] v.t = "obj" ->
              LET ps == SelectProps(v.ps) IN
              IF ps = <<>> THEN "{}"
              ELSE "{" \o inner
                   \o JoinStr([i \in 1..Len(ps) |->
                                 "\"" \o ps[i][1] \o "\"" \o colon
                                 \o Stringify(ps[i][2], indent, d + 1)],
                              "," \o inner)
                   \o outer \o "}"

JSONstringify(v) == Stringify(v, 0, 0)

-----------------------------------------------------------------------------
(* JSON.parse over a sequence of characters *)

Digits == {"0", "1", "2", "3", "4", "5", "6", "7", "8", "9"}
DigitVal == [c \in Digits |->
               CASE c = "0" -> 0 [] c = "1" -> 1 [] c = "2" -> 2 [] c = "3" -> 3
                 [] c = "4" -> 4 [] c = "5" -> 5 [] c = "6" -> 6 [] c = "7" -> 7
                 [] c = "8" -> 8 [] c = "9" -> 9]

RECURSIVE JoinChars(_)
JoinChars(cs) == IF cs = <<>> THEN "" ELSE Head(cs) \o JoinChars(Tail(cs))

Fail(at) == [ok |-> FALSE, at |-> at]
Done(v, p) == [ok |-> TRUE, v |-> v, p |-> p]

RECURSIVE SkipWs(_, _)
SkipWs(cs, p) == IF p <= Len(cs) /\ cs[p] = " " THEN SkipWs(cs, p + 1) ELSE p

RECURSIVE DigitsEnd(_, _)
\* the position after the run of digits that starts at p
DigitsEnd(cs, p) ==
    IF p <= Len(cs) /\ cs[p] \in Digits THEN DigitsEnd(cs, p + 1) ELSE p

RECURSIVE DigitsValue(_, _, _, _)
DigitsValue(cs, p, q, acc) ==
    IF p >= q THEN acc ELSE DigitsValue(cs, p + 1, q, acc * 10 + DigitVal[cs[p]])

RECURSIVE QuoteAt(_, _)
\* the position of the next double quote at or after p, Len(cs) + 1 if none
QuoteAt(cs, p) ==
    IF p > Len(cs) \/ cs[p] = "\"" THEN p ELSE QuoteAt(cs, p + 1)

ParseString(cs, p) ==
    LET q == QuoteAt(cs, p + 1) IN
    IF q > Len(cs) THEN Fail(q)
    ELSE Done(Str(JoinChars(SubSeq(cs, p + 1, q - 1))), q + 1)

ParseNumber(cs, p) ==
    LET neg == cs[p] = "-"
        s == IF neg THEN p + 1 ELSE p
        e == DigitsEnd(cs, s)
    IN IF e = s THEN Fail(s)
       ELSE IF cs[s] = "0" /\ e > s + 1 THEN Fail(s + 1)
       ELSE LET n == DigitsValue(cs, s, e, 0)
            IN Done(Num(IF neg THEN 0 - n ELSE n), e)

RECURSIVE MatchWord(_, _, _)
\* Len(w) + 1 when cs carries w from p on, else the offset of the first mismatch
MatchWord(cs, p, w) ==
    IF w = <<>> THEN 0
    ELSE IF p > Len(cs) \/ cs[p] # Head(w) THEN 1
    ELSE LET r == MatchWord(cs, p + 1, Tail(w)) IN IF r = 0 THEN 0 ELSE r + 1

ParseLiteral(cs, p, w, v) ==
    LET m == MatchWord(cs, p, w) IN
    IF m = 0 THEN Done(v, p + Len(w)) ELSE Fail(p + m - 1)

RECURSIVE ParseValue(_, _)
RECURSIVE ParseMembers(_, _, _)
RECURSIVE ParseElements(_, _, _)

\* after "{" or ",": members of an object, ps the properties read so far
ParseMembers(cs, p, ps) ==
    LET k == SkipWs(cs, p) IN
    IF k > Len(cs) \/ cs[k] # "\"" THEN Fail(k)
    ELSE LET key == ParseString(cs, k) IN
         IF ~key.ok THEN key
         ELSE LET c == SkipWs(cs, key.p) IN
              IF c > Len(cs) \/ cs[c] # ":" THEN Fail(c)
              ELSE LET val == ParseValue(cs, c + 1) IN
                   IF ~val.ok THEN val
                   ELSE LET n == SkipWs(cs, val.p)
                            ps2 == SetProp(ps, key.v.s, val.v)
                        IN IF n > Len(cs) THEN Fail(n)
                           ELSE IF cs[n] = "}" THEN Done(Obj(ps2), n + 1)
                           ELSE IF cs[n] = "," THEN ParseMembers(cs, n + 1, ps2)
                           ELSE Fail(n)

\* after "[" or ",": elements of an array, es the elements read so far
ParseElements(cs, p, es) ==
    LET val == ParseValue(cs, p) IN
    IF ~val.ok THEN val
    ELSE LET n == SkipWs(cs, val.p)
             es2 == Append(es, val.v)
         IN IF n > Len(cs) THEN Fail(n)
            ELSE IF cs[n] = "]" THEN Done(Arr(es2), n + 1)
            ELSE IF cs[n] = "," THEN ParseElements(cs, n + 1, es2)
            ELSE Fail(n)

ParseValue(cs, p) ==
    LET q == SkipWs(cs, p) IN
    IF q > Len(cs) THEN Fail(q)
    ELSE LET c == cs[q] IN
         CASE c = "{" ->
                LET m == SkipWs(cs, q + 1) IN
                IF m <= Len(cs) /\ cs[m] = "}" THEN Done(Obj(<<>>), m + 1)
                ELSE ParseMembers(cs, q + 1, <<>>)
           [] c = "[" ->
                LET m == SkipWs(cs, q + 1) IN
                IF m <= Len(cs) /\ cs[m] = "]" THEN Done(Arr(<<>>), m + 1)
                ELSE ParseElements(cs, q + 1, <<>>)
           [] c = "\"" -> ParseString(cs, q)
           [] c = "-" \/ c \in Digits -> ParseNumber(cs, q)
           [] c = "t" -> ParseLiteral(cs, q, <<"t", "r", "u", "e">>, Bool(TRUE))
           [] c = "f" -> ParseLiteral(cs, q, <<"f", "a", "l", "s", "e">>, Bool(FALSE))
           [] c = "n" -> ParseLiteral(cs, q, <<"n", "u", "l", "l">>, Null)
           [] OTHER -> Fail(q)

\* The message of the SyntaxError JSON.parse throws for a failure at position
\* `at`.  The wording is the engine's: this is V8's as shipped with Node 18
\* and earlier; positions count from 0.
SyntaxErrorMessage(cs, at) ==
    IF at > Len(cs) THEN "Unexpected end of JSON input"
    ELSE "Unexpected token " \o cs[at] \o " in JSON at position " \o ToString(at - 1)

Threw(name, message) == [ok |-> FALSE, e |-> [name |-> name, message |-> message]]
Returned(v) == [ok |-> TRUE, v |-> v]

JSONparse(cs) ==
    LET r == ParseValue(cs, 1) IN
    IF ~r.ok THEN Threw("SyntaxError", SyntaxErrorMessage(cs, r.at))
    ELSE LET e == SkipWs(cs, r.p) IN
         IF e <= Len(cs) THEN Threw("SyntaxError", SyntaxErrorMessage(cs, e))
         ELSE Returned(r.v)

-----------------------------------------------------------------------------
(* Configuration and the API client *)

DefaultApiBase == "https://tradernet.com/api"

ToolNames ==
    {"get_user_data", "get_portfolio", "place_order", "cancel_order",
     "set_stop_loss_take_profit", "get_security_info", "get_quotes_history",
     "search_tickers", "add_price_alert", "delete_price_alert",
     "get_security_sessions", "raw_api_call"}

CredentialsMessage ==
    "TRADERNET_PUBLIC_KEY and TRADERNET_PRIVATE_KEY environment variables are required"

\* crypto.createHmac("sha256", PRIVATE_KEY).update(data).digest("hex"), kept as
\* the term it denotes: equal exactly when key and data are equal.
generateSignature(data) ==
    [hmac |-> "sha256", key |-> PRIVATE_KEY, data |-> data, digest |-> "hex"]

\* Math.floor(Date.now() / 1000).toString(), now in milliseconds
timeStampOf(now) == ToString(now \div 1000)

\* requestHeaders signing the timestamp before the body instead of after it
requestHeadersSwapped(payload, timeStamp) ==
    ("Content-Type" :> "application/json")
    @@ ("X-NtApi-PublicKey" :> PUBLIC_KEY)
    @@ ("X-NtApi-Timestamp" :> timeStamp)
    @@ ("X-NtApi-Sig" :> generateSignature(timeStamp \o payload))

requestHeaders(payload, timeStamp) ==
    ("Content-Type" :> "application/json")
    @@ ("X-NtApi-PublicKey" :> PUBLIC_KEY)
    @@ ("X-NtApi-Timestamp" :> timeStamp)
    @@ ("X-NtApi-Sig" :> generateSignature(payload \o timeStamp))

\* callApi without its check of the credentials
callApiUnchecked(command, params, now) ==
    LET timeStamp == timeStampOf(now)
        payload == JSONstringify(params)
    IN Returned([method |-> "POST",
                 url |-> API_BASE \o "/" \o command,
                 body |-> payload,
                 headers |-> requestHeaders(payload, timeStamp)])

\* callApi up to its await: the error it throws, or the request axios.post sends.
callApi(command, params, now) ==
    IF PUBLIC_KEY = "" \/ PRIVATE_KEY = ""
    THEN Threw("Error", CredentialsMessage)
    ELSE LET timeStamp == timeStampOf(now)
             payload == JSONstringify(params)
         IN Returned([method |-> "POST",
                      url |-> API_BASE \o "/" \o command,
                      body |-> payload,
                      headers |-> requestHeaders(payload, timeStamp)])

\* What axios.post settles with for an answer of the network: it resolves with
\* the response on a 2xx status and rejects otherwise; callApi returns
\* response.data.
axiosPost(answer) ==
    IF answer.kind = "network" THEN Threw("AxiosError", answer.message)
    ELSE IF answer.status >= 200 /\ answer.status < 300 THEN Returned(answer.data)
    ELSE Threw("AxiosError",
               "Request failed with status code " \o ToString(answer.status))

formatResult(data) == Stringify(data, 2, 0)

-----------------------------------------------------------------------------
(* Parameter schemas: the defaults zod fills in before the handler runs *)

Chars(cs) == [t |-> "chars", cs |-> cs]

Default(x, d) == IF x = Undef THEN d ELSE x

Validated(tool, a) ==
    CASE tool = "place_order" ->
           [a EXCEPT !.expiration = Default(@, Str("day"))]
      [] tool = "get_quotes_history" ->
           [a EXCEPT !.count = Default(@, Num(0))]
      [] tool = "add_price_alert" ->
           [a EXCEPT !.quote_type = Default(@, Str("ltp")),
                     !.notification_type = Default(@, Str("push")),
                     !.alert_period = Default(@, Str("0"))]
      [] tool = "raw_api_call" ->
           [a EXCEPT !.params = Default(@, Chars(<<"{", "}">>)),
                     !.use_v2 = Default(@, Bool(FALSE))]
      [] OTHER -> a

-----------------------------------------------------------------------------
(* The handlers: the call each one makes, or the error raised before it *)

ApiCall(command, params) == Returned([command |-> command, params |-> params])

get_user_data(a) == ApiCall("getOPQ", Obj(<<>>))

get_portfolio(a) == ApiCall("getPositionJson", Obj(<<>>))

\* actionMap with the codes of sell and sell_short exchanged
actionMapSwapped == [buy |-> 1, buy_margin |-> 2, sell |-> 4, sell_short |-> 3]

actionMap == [buy |-> 1, buy_margin |-> 2, sell |-> 3, sell_short |-> 4]
typeMap == [market |-> 1, limit |-> 2, stop |-> 3, stop_limit |-> 4]
expMap == [day |-> 1, day_ext |-> 2, gtc |-> 3]

place_order(a) ==
    ApiCall("putTradeOrder",
            Obj(<< <<"instr_name", a.instrument>>,
                   <<"action_id", Num(actionMap[a.action.s])>>,
                   <<"order_type_id", Num(typeMap[a.order_type.s])>>,
                   <<"qty", a.quantity>>,
                   <<"limit_price", Nullish(a.limit_price, Num(0))>>,
                   <<"stop_price", Nullish(a.stop_price, Num(0))>>,
                   <<"expiration_id", Num(expMap[a.expiration.s])>> >>))

cancel_order(a) == ApiCall("delTradeOrder", Obj(<< <<"order_id", a.order_id>> >>))

set_stop_loss_take_profit(a) ==
    ApiCall("putStopLoss",
            Obj(<< <<"instr_name", a.instrument>>,
                   <<"stop_loss", a.stop_loss>>,
                   <<"take_profit", a.take_profit>>,
                   <<"stoploss_trailing_percent",
                     Nullish(a.trailing_stop_percent, Null)>> >>))

get_security_info(a) ==
    ApiCall("getSecurityInfo",
            Obj(<< <<"ticker", a.ticker>>, <<"sup", Bool(TRUE)>> >>))

\* parseInt of a string of decimal digits
parseInt(cs) == Num(DigitsValue(cs, 1, DigitsEnd(cs, 1), 0))

get_quotes_history(a) ==
    ApiCall("getHloc",
            Obj(<< <<"id", a.ticker>>,
                   <<"timeframe", parseInt(a.timeframe.cs)>>,
                   <<"date_from", a.date_from>>,
                   <<"date_to", a.date_to>>,
                   <<"count", a.count>>,
                   <<"intervalMode", Str("ClosedRay")>> >>))

search_tickers(a) == ApiCall("tickerFinder", Obj(<< <<"text", a.query>> >>))

add_price_alert(a) ==
    ApiCall("togglePriceAlert",
            Obj(<< <<"ticker", a.ticker>>,
                   <<"price", Obj(<< <<"price", a.price>> >>)>>,
                   <<"trigger_type", a.trigger_type>>,
                   <<"quote_type", a.quote_type>>,
                   <<"notification_type", a.notification_type>>,
                   <<"alert_period", a.alert_period>>,
                   <<"expire", Num(0)>> >>))

delete_price_alert(a) ==
    ApiCall("togglePriceAlert",
            Obj(<< <<"id", a.alert_id>>,
                   <<"del", Bool(TRUE)>>,
                   <<"quote_type", Str("ltp")>>,
                   <<"notification_type", Str("email")>> >>))

get_security_sessions(a) == ApiCall("getSecuritySessions", Obj(<<>>))

\* the use_v2 branch routed to the v2 endpoint its description announces
rawCallV2Routed(command, parsed) == ApiCall("v2/cmd/" \o command, parsed)

\* the two branches of `use_v2 ? callApi(command, parsed) : callApi(command, parsed)`
rawCallV2(command, parsed) == ApiCall(command, parsed)
rawCallV1(command, parsed) == ApiCall(command, parsed)

\* raw_api_call with JSON.parse's failure replaced by an empty parameter object
raw_api_call_lenient(a) ==
    LET parsed == JSONparse(a.params.cs) IN
    IF ~parsed.ok THEN rawCallV1(a.command.s, Obj(<<>>))
    ELSE IF a.use_v2.b THEN rawCallV2(a.command.s, parsed.v)
    ELSE rawCallV1(a.command.s, parsed.v)

raw_api_call(a) ==
    LET parsed == JSONparse(a.params.cs) IN
    IF ~parsed.ok THEN parsed
    ELSE IF a.use_v2.b THEN rawCallV2(a.command.s, parsed.v)
    ELSE rawCallV1(a.command.s, parsed.v)

ToolCall(tool, a) ==
    CASE tool = "get_user_data" -> get_user_data(a)
      [] tool = "get_portfolio" -> get_portfolio(a)
      [] tool = "place_order" -> place_order(a)
      [] tool = "cancel_order" -> cancel_order(a)
      [] tool = "set_stop_loss_take_profit" -> set_stop_loss_take_profit(a)
      [] tool = "get_security_info" -> get_security_info(a)
      [] tool = "get_quotes_history" -> get_quotes_history(a)
      [] tool = "search_tickers" -> search_tickers(a)
      [] tool = "add_price_alert" -> add_price_alert(a)
      [] tool = "delete_price_alert" -> delete_price_alert(a)
      [] tool = "get_security_sessions" -> get_security_sessions(a)
      [] tool = "raw_api_call" -> raw_api_call(a)

(* The envelopes *)

SuccessEnvelope(data) ==
    [content |-> << [type |-> "text", text |-> formatResult(data)] >>]

ErrorEnvelope(e) ==
    [content |-> << [type |-> "text", text |-> "Error: " \o e.message] >>,
     isError |-> TRUE]

\* a handler without its catch: the error leaves the handler
HandlerRethrow(r) == r

\* try { ... } catch (e) { return <error envelope> } around a step of a handler
HandlerCatch(r) == IF r.ok THEN r ELSE Returned(ErrorEnvelope(r.e))

\* The handler from its start to its first await.  `call` is what the handler
\* asks of callApi, `sent` the request callApi hands to axios.post; the handler
\* has returned when `done.ok` carries an envelope and rejected when not.
HandlerAwait(call, now) ==
    CHOOSE h \in
        {[entered |-> call.ok,
          awaiting |-> sent.ok,
          request |-> IF sent.ok THEN sent.v ELSE Null,
          done |-> HandlerCatch(sent)] :
            sent \in {IF call.ok THEN callApi(call.v.command, call.v.params, now)
                                ELSE call}} : TRUE

HandlerStart(tool, a, now) ==
    CHOOSE h \in {HandlerAwait(call, now) : call \in {ToolCall(tool, a)}} : TRUE

\* The handler from the settling of its await to its return.
HandlerResume(answer) ==
    LET data == axiosPost(answer) IN
    HandlerCatch(IF data.ok THEN Returned(SuccessEnvelope(data.v)) ELSE data)

-----------------------------------------------------------------------------
(* The server *)

Init ==
    /\ PUBLIC_KEY \in {"", "pub-key"}
    /\ PRIVATE_KEY \in {"", "prv-key"}
    /\ API_BASE \in {DefaultApiBase, "http://localhost:8080/api"}
    /\ tools = ToolNames
    /\ proc = "starting"
    /\ inv = <<>>
    /\ requests = <<>>
    /\ netlog = <<>>
    /\ out = <<>>
    /\ escaped = {}

\* Init with both credentials set and the default base URL
InitOrders ==
    /\ Init
    /\ PUBLIC_KEY # "" /\ PRIVATE_KEY # ""
    /\ API_BASE = DefaultApiBase

\* main(): server.connect(transport) resolves
Connect ==
    /\ proc = "starting"
    /\ proc' = "running"
    /\ UNCHANGED <<config, inv, requests, netlog, out, escaped>>

\* main().catch: server.connect rejects, process.exit(1)
ConnectFail ==
    /\ proc = "starting"
    /\ proc' = "exited"
    /\ UNCHANGED <<config, inv, requests, netlog, out, escaped>>

\* A handler has settled: its envelope goes back to the transport, or its
\* rejection leaves the handler.
Deliver(id, r) ==
    IF r.ok
    THEN out' = Append(out, [id |-> id, envelope |-> r.v]) /\ UNCHANGED escaped
    ELSE escaped' = escaped \cup {id} /\ UNCHANGED out

\* The transport hands the handler of c.tool the parameters c.input while
\* Date.now() reads `now`; the handler runs to its first await.
Invoke(c, now, max) ==
    /\ proc = "running"
    /\ Len(inv) < max
    /\ c.tool \in tools
    /\ \E h \in {HandlerStart(c.tool, Validated(c.tool, c.input), now)} :
          /\ inv' = Append(inv, [tool |-> c.tool, input |-> c.input, now |-> now,
                                 entered |-> h.entered,
                                 st |-> IF h.awaiting THEN "awaiting" ELSE "done",
                                 req |-> IF h.awaiting THEN Len(requests) + 1 ELSE 0])
          /\ IF h.awaiting
             THEN /\ requests' = Append(requests, [by |-> Len(inv) + 1,
                                                   req |-> h.request])
                  /\ netlog' = Append(netlog, Null)
                  /\ UNCHANGED <<out, escaped>>
             ELSE /\ Deliver(Len(inv) + 1, h.done)
                  /\ UNCHANGED <<requests, netlog>>
    /\ UNCHANGED <<config, proc>>

\* Settle re-issuing the request when the call failed
SettleRetry(i, answer) ==
    /\ proc = "running"
    /\ i \in DOMAIN inv
    /\ inv[i].st = "awaiting"
    /\ IF axiosPost(answer).ok
       THEN /\ netlog' = [netlog EXCEPT ![inv[i].req] = answer]
            /\ inv' = [inv EXCEPT ![i].st = "done"]
            /\ Deliver(i, HandlerResume(answer))
            /\ UNCHANGED requests
       ELSE /\ netlog' = Append([netlog EXCEPT ![inv[i].req] = answer], Null)
            /\ requests' = Append(requests, [by |-> i, req |-> requests[inv[i].req].req])
            /\ inv' = [inv EXCEPT ![i].req = Len(requests) + 1]
            /\ UNCHANGED <<out, escaped>>
    /\ UNCHANGED <<config, proc>>

\* Settle with the handler's rejection left unhandled: the process dies
SettleCrash(i, answer) ==
    /\ proc = "running"
    /\ i \in DOMAIN inv
    /\ inv[i].st = "awaiting"
    /\ netlog' = [netlog EXCEPT ![inv[i].req] = answer]
    /\ inv' = [inv EXCEPT ![i].st = "done"]
    /\ IF axiosPost(answer).ok
       THEN Deliver(i, HandlerResume(answer)) /\ UNCHANGED proc
       ELSE proc' = "exited" /\ UNCHANGED <<out, escaped>>
    /\ UNCHANGED <<config, requests>>

\* Settle with a failed call never settling the handler
SettleHang(i, answer) ==
    /\ proc = "running"
    /\ i \in DOMAIN inv
    /\ inv[i].st = "awaiting"
    /\ netlog' = [netlog EXCEPT ![inv[i].req] = answer]
    /\ IF axiosPost(answer).ok
       THEN inv' = [inv EXCEPT ![i].st = "done"] /\ Deliver(i, HandlerResume(answer))
       ELSE inv' = [inv EXCEPT ![i].st = "hung"] /\ UNCHANGED <<out, escaped>>
    /\ UNCHANGED <<config, proc, requests>>

\* Settle with the response kept in one slot shared by all invocations: the
\* handler resumes on the first answer the server received
SettleShared(i, answer) ==
    /\ proc = "running"
    /\ i \in DOMAIN inv
    /\ inv[i].st = "awaiting"
    /\ netlog' = [netlog EXCEPT ![inv[i].req] = answer]
    /\ inv' = [inv EXCEPT ![i].st = "done"]
    /\ \E shared \in {IF \E k \in DOMAIN out : inv[out[k].id].req # 0
                      THEN netlog[inv[out[CHOOSE k \in DOMAIN out :
                                                inv[out[k].id].req # 0].id].req]
                      ELSE answer} :
          Deliver(i, HandlerResume(shared))
    /\ UNCHANGED <<config, proc, requests>>

\* The network answers the request of invocation i; its handler resumes and
\* returns.
Settle(i, answer) ==
    /\ proc = "running"
    /\ i \in DOMAIN inv
    /\ inv[i].st = "awaiting"
    /\ netlog' = [netlog EXCEPT ![inv[i].req] = answer]
    /\ inv' = [inv EXCEPT ![i].st = "done"]
    /\ Deliver(i, HandlerResume(answer))
    /\ UNCHANGED <<config, proc, requests>>

-----------------------------------------------------------------------------
(* Inputs *)

MaxInv == 2
MaxCatalogInv == 1
MaxOrderInv == 1

Times == {1999, 2000}

HttpAnswer(status, data) == [kind |-> "http", status |-> status, data |-> data]
NetworkFailure(message) == [kind |-> "network", message |-> message]

Answers ==
    {HttpAnswer(200, Obj(<< <<"order_id", Num(7)>> >>)),
     HttpAnswer(200, Obj(<< <<"result", Obj(<< <<"ps", Arr(<<>>)>>,
                                               <<"ok", Bool(TRUE)>> >>)>> >>)),
     HttpAnswer(500, Obj(<< <<"errMsg", Str("internal")>> >>)),
     NetworkFailure("socket hang up")}

\* one reading of the clock
SomeTime == CHOOSE now \in Times : TRUE

\* the answers drawn under concurrency: two different bodies and a failure
SomeAnswers ==
    {HttpAnswer(200, Obj(<< <<"order_id", Num(7)>> >>)),
     HttpAnswer(200, Obj(<< <<"order_id", Num(8)>> >>)),
     HttpAnswer(500, Obj(<< <<"errMsg", Str("internal")>> >>))}

OrderAnswers == {HttpAnswer(200, Obj(<< <<"order_id", Num(7)>> >>))}

NoArgs == [none |-> Undef]

BadJson == <<"{", "b", "a", "d", " ", "j", "s", "o", "n">>
CutJson == <<"{", "\"", "a", "\"", ":", "1">>
SmallJson == <<"{", "\"", "a", "\"", ":", "1", "}">>
NestedJson == <<" ", "{", "\"", "a", "\"", " ", ":", "{", "\"", "b", "\"", ":",
                "[", "t", "r", "u", "e", ",", "-", "2", "]", "}", "}", " ">>

OrderInput(action, type, limit, stop, expiration) ==
    [tool |-> "place_order",
     input |-> [instrument |-> Str("AAPL.US"), action |-> Str(action),
                order_type |-> Str(type), quantity |-> Num(10),
                limit_price |-> limit, stop_price |-> stop,
                expiration |-> expiration]]

RawInput(params, use_v2) ==
    [tool |-> "raw_api_call",
     input |-> [command |-> Str("getOPQ"), params |-> params, use_v2 |-> use_v2]]

\* every action, order type and expiration, with both prices left out and with
\* both given; and every order type with one price only
OrderInputs ==
    {OrderInput(a, ty, p[1], p[2], e) :
        a \in DOMAIN actionMap, ty \in DOMAIN typeMap,
        p \in {<<Undef, Undef>>, <<Num(150), Num(140)>>},
        e \in {Undef} \cup {Str(x) : x \in DOMAIN expMap}}
    \cup {OrderInput("buy", ty, p[1], p[2], Undef) :
            ty \in DOMAIN typeMap,
            p \in {<<Num(150), Undef>>, <<Undef, Num(140)>>}}

RawInputs ==
    {RawInput(p, v) :
        p \in {Undef, Chars(<<>>), Chars(BadJson), Chars(CutJson),
               Chars(SmallJson), Chars(NestedJson), Chars(<<"n", "u", "l", "l">>)},
        v \in {Undef, Bool(TRUE), Bool(FALSE)}}

CatalogInputs ==
    {[tool |-> t, input |-> NoArgs] :
        t \in {"get_user_data", "get_portfolio", "get_security_sessions"}}
    \cup {OrderInput("buy", "limit", Num(150), Undef, Undef),
          OrderInput("sell_short", "stop_limit", Num(150), Num(140), Str("gtc"))}
    \cup {[tool |-> "cancel_order", input |-> [order_id |-> Num(42)]]}
    \cup {[tool |-> "set_stop_loss_take_profit",
           input |-> [instrument |-> Str("SBER"), stop_loss |-> sl,
                      take_profit |-> Null, trailing_stop_percent |-> tr]] :
            sl \in {Null, Num(250)}, tr \in {Undef, Null, Num(5)}}
    \cup {[tool |-> "get_security_info", input |-> [ticker |-> Str("AAPL.US")]]}
    \cup {[tool |-> "get_quotes_history",
           input |-> [ticker |-> Str("AAPL.US"), timeframe |-> Chars(tf),
                      date_from |-> Str("01.01.2025 00:00"),
                      date_to |-> Str("31.01.2025 23:59"), count |-> n]] :
            tf \in {<<"6", "0">>, <<"1", "4", "4", "0">>}, n \in {Undef, Num(5)}}
    \cup {[tool |-> "search_tickers", input |-> [query |-> Str("AAPL@FIX")]]}
    \cup {[tool |-> "add_price_alert",
           input |-> [ticker |-> Str("MSFT.US"), price |-> Str("400"),
                      trigger_type |-> Str("crossing_up"), quote_type |-> q,
                      notification_type |-> Undef, alert_period |-> ap]] :
            q \in {Undef, Str("bap")}, ap \in {Undef, Str("3600")}}
    \cup {[tool |-> "delete_price_alert", input |-> [alert_id |-> Num(42)]]}
    \cup RawInputs

\* the inputs drawn under concurrency
Inputs ==
    {OrderInput("buy", "market", Undef, Undef, Undef),
     RawInput(Chars(SmallJson), Bool(TRUE)),
     RawInput(Chars(SmallJson), Bool(FALSE)),
     RawInput(Chars(BadJson), Bool(FALSE))}

-----------------------------------------------------------------------------
(* Specifications *)

Call == \E c \in Inputs : Invoke(c, SomeTime, MaxInv)

CatalogCall == \E c \in CatalogInputs, now \in Times : Invoke(c, now, MaxCatalogInv)

OrderCall == \E c \in OrderInputs : Invoke(c, SomeTime, MaxOrderInv)

OrderRespond == \E i \in DOMAIN inv, answer \in OrderAnswers : Settle(i, answer)

Respond == \E i \in DOMAIN inv, answer \in SomeAnswers : Settle(i, answer)

CatalogRespond == \E i \in DOMAIN inv, answer \in Answers : Settle(i, answer)

Next == Connect \/ ConnectFail \/ Call \/ Respond

NextCatalog == Connect \/ ConnectFail \/ CatalogCall \/ CatalogRespond

NextOrders == Connect \/ ConnectFail \/ OrderCall \/ OrderRespond

\* the server under concurrent invocations
Spec == Init /\ [][Next]_vars

\* every tool of the catalogue, over its parameter sets
SpecCatalog == Init /\ [][NextCatalog]_vars

\* place_order over the whole product of its enumerations
SpecOrders == InitOrders /\ [][NextOrders]_vars

\* Spec, with every outbound call answered in the end
FairSpec ==
    Spec /\ \A i \in 1..MaxInv : WF_vars(\E answer \in SomeAnswers : Settle(i, answer))

-----------------------------------------------------------------------------
(* Vocabulary of the properties *)

EnvelopesOf(i) == {k \in DOMAIN out : out[k].id = i}

RequestsOf(i) == {r \in DOMAIN requests : requests[r].by = i}

CredentialsMissing == PUBLIC_KEY = "" \/ PRIVATE_KEY = ""

TextOf(e) == e.content[1].text

OneTextItem(e) == Len(e.content) = 1 /\ e.content[1].type = "text"

IsSuccessShape(e) == DOMAIN e = {"content"} /\ OneTextItem(e)

IsErrorShape(e) == DOMAIN e = {"content", "isError"} /\ e.isError = TRUE /\ OneTextItem(e)

\* invocation i has been given exactly one envelope, and it satisfies P
TheEnvelope(i, P(_)) ==
    /\ Cardinality(EnvelopesOf(i)) = 1
    /\ \A k \in EnvelopesOf(i) : P(out[k].envelope)

NamesBothCredentials(text) ==
    text = "Error: TRADERNET_PUBLIC_KEY and TRADERNET_PRIVATE_KEY environment variables are required"

\* the params string invocation i hands to JSON.parse ("{}" when omitted)
RawParams(i) ==
    IF inv[i].input.params = Undef THEN <<"{", "}">> ELSE inv[i].input.params.cs

RawUseV2(i) == inv[i].input.use_v2 = Bool(TRUE)

\* the texts among the inputs that are not JSON, with the report of each
InvalidJsonTexts == {<<>>, BadJson, CutJson}

ParseReport(cs) ==
    CASE cs = <<>> -> "Error: Unexpected end of JSON input"
      [] cs = BadJson -> "Error: Unexpected token b in JSON at position 1"
      [] cs = CutJson -> "Error: Unexpected end of JSON input"

IsFailure(answer) ==
    answer.kind = "network" \/ answer.status < 200 \/ answer.status >= 300

FailureReport(answer) ==
    IF answer.kind = "network" THEN "Error: " \o answer.message
    ELSE "Error: Request failed with status code " \o ToString(answer.status)

\* the envelope an answer of the network must lead to
Wraps(e, answer) ==
    IF IsFailure(answer)
    THEN IsErrorShape(e) /\ TextOf(e) = FailureReport(answer)
    ELSE IsSuccessShape(e) /\ TextOf(e) = Stringify(answer.data, 2, 0)

-----------------------------------------------------------------------------
(* C1 -- SpecCatalog.  Every invocation that has run to its end has produced
   exactly one envelope, an invocation still waiting for its call has produced
   none, every envelope has the success shape or the error shape and not both,
   and no handler has let a failure escape. *)
C1_OneEnvelope ==
    /\ escaped = {}
    /\ \A i \in DOMAIN inv :
          /\ inv[i].st \in {"awaiting", "done"}
          /\ inv[i].st = "done" => Cardinality(EnvelopesOf(i)) = 1
          /\ inv[i].st = "awaiting" => EnvelopesOf(i) = {}
    /\ \A k \in DOMAIN out :
          /\ out[k].id \in DOMAIN inv
          /\ IsSuccessShape(out[k].envelope) # IsErrorShape(out[k].envelope)

\* a call that failed on the network has been turned into an error envelope
C1_Witness ==
    \E i \in DOMAIN inv :
        /\ inv[i].st = "done" /\ inv[i].req # 0
        /\ IsFailure(netlog[inv[i].req])
        /\ TheEnvelope(i, IsErrorShape)

(* C2 as stated -- SpecCatalog.  With a credential missing, every invocation
   of every tool ends in an error envelope naming both variables, and no
   request is issued. *)
C2_AsStated ==
    CredentialsMissing =>
        /\ requests = <<>>
        /\ \A i \in DOMAIN inv :
              TheEnvelope(i, LAMBDA e : IsErrorShape(e) /\ NamesBothCredentials(TextOf(e)))

(* C2 amended -- SpecCatalog.  With a credential missing no request is issued
   and every invocation ends in an error envelope; the envelope names both
   variables, except that raw_api_call given a params string that is not JSON
   reports the parse failure instead. *)
C2_MissingCredentials ==
    CredentialsMissing =>
        /\ requests = <<>>
        /\ \A i \in DOMAIN inv :
              IF inv[i].tool = "raw_api_call" /\ RawParams(i) \in InvalidJsonTexts
              THEN TheEnvelope(i, LAMBDA e : IsErrorShape(e)
                                             /\ TextOf(e) = ParseReport(RawParams(i)))
              ELSE TheEnvelope(i, LAMBDA e : IsErrorShape(e)
                                             /\ NamesBothCredentials(TextOf(e)))

\* raw_api_call with a JSON params string and no private key
C2_Witness ==
    /\ PRIVATE_KEY = "" /\ PUBLIC_KEY # ""
    /\ \E i \in DOMAIN inv :
          /\ inv[i].tool = "raw_api_call" /\ RawParams(i) = NestedJson
          /\ TheEnvelope(i, LAMBDA e : NamesBothCredentials(TextOf(e)))

(* C3 -- Spec.  No invocation has issued more than one request, whatever the
   answers were; an invocation that entered callApi with both credentials set
   has issued exactly one, any other none; so the requests never outnumber
   the invocations. *)
C3_AtMostOneRequest ==
    /\ Len(requests) <= Len(inv)
    /\ \A r \in DOMAIN requests : requests[r].by \in DOMAIN inv
    /\ \A i \in DOMAIN inv :
          Cardinality(RequestsOf(i)) =
              IF inv[i].entered /\ ~CredentialsMissing THEN 1 ELSE 0

\* a call has failed, its invocation has ended, and a second invocation came
C3_Witness ==
    /\ Len(inv) = 2
    /\ \E i \in DOMAIN inv :
          /\ inv[i].st = "done" /\ inv[i].req # 0
          /\ IsFailure(netlog[inv[i].req])
          /\ Cardinality(RequestsOf(i)) = 1

(* C4 -- SpecCatalog.  Every request is a POST to <base>/<command> of its
   invocation, its body the JSON text of the invocation's parameters, its
   public-key header the configured key, its timestamp header the whole
   seconds of the clock reading, and its signature the HMAC-SHA256 under the
   private key of the body followed by that same timestamp header. *)
C4_SignedRequest ==
    \A r \in DOMAIN requests :
        \E q \in {requests[r].req}, i \in {requests[r].by} :
        \E call \in {ToolCall(inv[i].tool, Validated(inv[i].tool, inv[i].input))} :
            /\ q.method = "POST"
            /\ q.url = API_BASE \o "/" \o call.v.command
            /\ q.body = JSONstringify(call.v.params)
            /\ DOMAIN q.headers = {"Content-Type", "X-NtApi-PublicKey",
                                   "X-NtApi-Timestamp", "X-NtApi-Sig"}
            /\ q.headers["Content-Type"] = "application/json"
            /\ q.headers["X-NtApi-PublicKey"] = PUBLIC_KEY
            /\ q.headers["X-NtApi-Timestamp"] = ToString(inv[i].now \div 1000)
            /\ q.headers["X-NtApi-Sig"] =
                   [hmac |-> "sha256", key |-> PRIVATE_KEY, digest |-> "hex",
                    data |-> q.body \o q.headers["X-NtApi-Timestamp"]]

\* a raw call sent just before the clock reaches second 2
C4_Witness ==
    \E r \in DOMAIN requests :
        /\ inv[requests[r].by].tool = "raw_api_call"
        /\ RawParams(requests[r].by) = NestedJson
        /\ inv[requests[r].by].now = 1999
        /\ requests[r].req.body = "{\"a\":{\"b\":[true,-2]}}"
        /\ requests[r].req.headers["X-NtApi-Timestamp"] = "1"

-----------------------------------------------------------------------------
ActionId(s) ==
    CASE s = "buy" -> 1 [] s = "buy_margin" -> 2 [] s = "sell" -> 3 [] s = "sell_short" -> 4

OrderTypeId(s) ==
    CASE s = "market" -> 1 [] s = "limit" -> 2 [] s = "stop" -> 3 [] s = "stop_limit" -> 4

ExpirationId(x) ==
    CASE x = Undef -> 1 [] x = Str("day") -> 1 [] x = Str("day_ext") -> 2 [] x = Str("gtc") -> 3

PriceOrZero(x) == IF x = Undef THEN Num(0) ELSE x

(* C5 -- SpecOrders.  The request of a place_order invocation, of which there
   is at most one, goes to <base>/putTradeOrder with the body
   {instr_name, action_id, order_type_id, qty, limit_price, stop_price,
   expiration_id} under the three code tables, day when the expiration is
   omitted and 0 for an absent limit or stop price; the order of the spec's
   scenario gives the body the spec prints. *)
C5_PlaceOrderRequest ==
    \A i \in DOMAIN inv :
        inv[i].tool = "place_order" =>
            /\ Cardinality(RequestsOf(i)) <= 1
            /\ \A r \in RequestsOf(i) : \E a \in {inv[i].input} :
                  /\ requests[r].req.url = API_BASE \o "/putTradeOrder"
                  /\ requests[r].req.body =
                        JSONstringify(Obj(<<
                            <<"instr_name", a.instrument>>,
                            <<"action_id", Num(ActionId(a.action.s))>>,
                            <<"order_type_id", Num(OrderTypeId(a.order_type.s))>>,
                            <<"qty", a.quantity>>,
                            <<"limit_price", PriceOrZero(a.limit_price)>>,
                            <<"stop_price", PriceOrZero(a.stop_price)>>,
                            <<"expiration_id", Num(ExpirationId(a.expiration))>> >>))
                  /\ a = OrderInput("buy", "limit", Num(150), Undef, Undef).input =>
                        requests[r].req.body =
                            "{\"instr_name\":\"AAPL.US\",\"action_id\":1,\"order_type_id\":2,\"qty\":10,\"limit_price\":150,\"stop_price\":0,\"expiration_id\":1}"

\* a short sale on a stop-limit order with prices and expiration left out
C5_Witness ==
    \E r \in DOMAIN requests :
        inv[requests[r].by].input =
            OrderInput("sell_short", "stop_limit", Undef, Undef, Undef).input

(* C6 -- SpecCatalog.  raw_api_call given a params string that is not JSON has
   ended in one error envelope reporting the parse failure and has issued no
   request, with or without credentials and whatever use_v2 is. *)
C6_BadJsonRejected ==
    \A i \in DOMAIN inv :
        (inv[i].tool = "raw_api_call" /\ RawParams(i) \in InvalidJsonTexts) =>
            /\ inv[i].st = "done"
            /\ RequestsOf(i) = {}
            /\ TheEnvelope(i, LAMBDA e : IsErrorShape(e)
                                         /\ TextOf(e) = ParseReport(RawParams(i)))

\* "{bad json" with both credentials set and use_v2 on
C6_Witness ==
    /\ ~CredentialsMissing
    /\ \E i \in DOMAIN inv :
          /\ inv[i].tool = "raw_api_call" /\ RawParams(i) = BadJson /\ RawUseV2(i)
          /\ TheEnvelope(i, IsErrorShape)

-----------------------------------------------------------------------------
\* invocations i and j were handed the same tool, parameters and clock reading
SameCall(i, j) ==
    /\ inv[i].tool = inv[j].tool
    /\ inv[i].input = inv[j].input
    /\ inv[i].now = inv[j].now

\* i and j have issued the same request, or neither has issued one
SameRequest(i, j) ==
    /\ (inv[i].req = 0) = (inv[j].req = 0)
    /\ inv[i].req # 0 => requests[inv[i].req].req = requests[inv[j].req].req

\* i and j have ended on the same answer of the network, or both without a call
SameAnswer(i, j) ==
    /\ inv[i].st = "done" /\ inv[j].st = "done"
    /\ (inv[i].req = 0) = (inv[j].req = 0)
    /\ inv[i].req # 0 => netlog[inv[i].req] = netlog[inv[j].req]

SameEnvelope(i, j) ==
    {out[k].envelope : k \in EnvelopesOf(i)} = {out[k].envelope : k \in EnvelopesOf(j)}

\* the step by which the call of invocation i fails
FailsAt(i) ==
    /\ i \in DOMAIN inv /\ inv[i].st = "awaiting"
    /\ inv'[i].st # "awaiting"
    /\ IsFailure(netlog'[inv[i].req])

(* C7 -- Spec.  The step by which an invocation's call fails delivers exactly
   one error envelope carrying the failure's message, leaves the process
   running and the credentials, base URL and tool set as they were; and
   through all that has failed before, invocations handed the same tool,
   parameters and clock reading issue the same request and, answered alike,
   return the same envelope. *)
C7_FailureContained ==
    /\ [][\A i \in 1..MaxInv :
            FailsAt(i) =>
              /\ Len(out') = Len(out) + 1
              /\ \E e \in {out'[Len(out')].envelope} :
                    /\ out' = Append(out, [id |-> i, envelope |-> e])
                    /\ IsErrorShape(e)
                    /\ TextOf(e) = FailureReport(netlog'[inv[i].req])
              /\ proc = "running" /\ proc' = "running"
              /\ config' = config
              /\ escaped' = escaped
              /\ requests' = requests]_vars
    /\ [](\A i, j \in DOMAIN inv :
            SameCall(i, j) =>
              /\ SameRequest(i, j)
              /\ SameAnswer(i, j) => SameEnvelope(i, j))

\* the first invocation failed on HTTP 500 and got its envelope first; the
\* second, the same call, was answered 200 and has its success envelope
C7_Witness ==
    /\ Len(inv) = 2 /\ Len(out) = 2
    /\ SameCall(1, 2) /\ inv[1].req # 0 /\ inv[2].req # 0
    /\ out[1].id = 1 /\ IsErrorShape(out[1].envelope)
    /\ netlog[inv[1].req].kind = "http" /\ IsFailure(netlog[inv[1].req])
    /\ out[2].id = 2 /\ IsSuccessShape(out[2].envelope)

(* C8 -- FairSpec.  Given that every outbound call is answered in the end
   (with a response or with a failure), every invocation is given its
   envelope in the end. *)
C8_EnvelopeInTheEnd ==
    \A i \in 1..MaxInv : (i \in DOMAIN inv) ~> (EnvelopesOf(i) # {})

\* both invocations waited for the network, and both have their envelope
C8_Witness ==
    /\ Len(inv) = MaxInv
    /\ \A i \in DOMAIN inv : inv[i].req # 0 /\ EnvelopesOf(i) # {}
    /\ \E i \in DOMAIN inv : IsFailure(netlog[inv[i].req])

(* C9 -- Spec.  While invocations wait for the network, a further invocation
   can start and each waiting one can be answered and deliver; every request
   is built from the parameters of the invocation that issued it, and every
   envelope of an invocation that made a call wraps the answer to that
   invocation's own request. *)
C9_OwnResponse ==
    /\ (proc = "running" /\ Len(inv) < MaxInv) => ENABLED Call
    /\ \A i \in DOMAIN inv :
          inv[i].st = "awaiting" =>
              ENABLED (\E j \in {i}, answer \in SomeAnswers : Settle(j, answer))
    /\ \A r \in DOMAIN requests :
          \E i \in {requests[r].by} :
          \E call \in {ToolCall(inv[i].tool, Validated(inv[i].tool, inv[i].input))} :
              /\ inv[i].req = r
              /\ requests[r].req.url = API_BASE \o "/" \o call.v.command
              /\ requests[r].req.body = JSONstringify(call.v.params)
    /\ \A i \in DOMAIN inv :
          (inv[i].st = "done" /\ inv[i].req # 0) =>
              /\ netlog[inv[i].req] # Null
              /\ TheEnvelope(i, LAMBDA e : Wraps(e, netlog[inv[i].req]))

\* two calls in flight together, answered in the reverse order and differently
C9_Witness ==
    /\ Len(inv) = 2 /\ Len(out) = 2
    /\ inv[1].req = 1 /\ inv[2].req = 2
    /\ inv[1].tool # inv[2].tool
    /\ out[1].id = 2 /\ out[2].id = 1
    /\ IsSuccessShape(out[1].envelope) /\ IsSuccessShape(out[2].envelope)
    /\ netlog[1] # netlog[2]

\* raw_api_call invocations i and j differ in use_v2 and in nothing else
DifferOnlyInUseV2(i, j) ==
    /\ inv[i].tool = "raw_api_call" /\ inv[j].tool = "raw_api_call"
    /\ inv[i].input.command = inv[j].input.command
    /\ RawParams(i) = RawParams(j)
    /\ inv[i].now = inv[j].now
    /\ RawUseV2(i) /\ ~RawUseV2(j)

(* C10 -- Spec.  Two raw_api_call invocations that differ only in use_v2
   issue the same request (URL <base>/<command>, body, headers) or both none,
   and answered alike they return the same envelope. *)
C10_UseV2Ignored ==
    \A i, j \in DOMAIN inv :
        DifferOnlyInUseV2(i, j) =>
            /\ SameRequest(i, j)
            /\ \A r \in RequestsOf(i) :
                  requests[r].req.url = API_BASE \o "/" \o inv[i].input.command.s
            /\ SameAnswer(i, j) => SameEnvelope(i, j)

\* the same raw call with use_v2 on and off, both answered with the same data
C10_Witness ==
    \E i, j \in DOMAIN inv :
        /\ DifferOnlyInUseV2(i, j)
        /\ inv[i].req # 0 /\ inv[j].req # 0
        /\ SameAnswer(i, j)
        /\ TheEnvelope(i, IsSuccessShape) /\ TheEnvelope(j, IsSuccessShape)

====
